---- MODULE Spec2Model ----
(***************************************************************************)
(* Champions-League draw simulator: the entity model (Club, Match, Draw),   *)
(* the declarative rule set (UCLConstraints) and the DrawValidator, as a    *)
(* state machine.  Python values that matter to a check are tagged records: *)
(* a string is a tuple of one-character strings where the code looks at the *)
(* characters (pays), an exception is the name of its class in "exc".       *)
(***************************************************************************)
EXTENDS Integers, Sequences, FiniteSets, TLC

VARIABLES hashSeed, club, match, draw, last

vars == <<hashSeed, club, match, draw, last>>

(***************************************************************************)
(* src/config.py                                                            *)
(***************************************************************************)
MATCHES_PER_CLUB == 8
JOURNEES == 8
HOME_MATCHES_PER_CLUB == 4
AWAY_MATCHES_PER_CLUB == 4
TOTAL_CLUBS == 36
MAX_SAME_COUNTRY_OPPONENTS == 0
MAX_OPPONENTS_PER_FOREIGN_COUNTRY == 2
MAX_CONSECUTIVE_HOME_MATCHES == 2
MAX_CONSECUTIVE_AWAY_MATCHES == 2

\* dict chapeau -> number of opponents; .items() iterates the keys 1, 2, 3, 4
OPPONENTS_PER_CHAPEAU == [c \in 1..4 |-> 2]

\* dict chapeau -> (home, away)
DISTRIBUTION_CHAPEAUX == [c \in 1..4 |-> <<1, 1>>]

get_expected_total_matches == (TOTAL_CLUBS * MATCHES_PER_CLUB) \div 2

(***************************************************************************)
(* Python values handed to the constructors.                                *)
(*   t = "str"  : a str, s its text (id, nom) or its characters (pays)      *)
(*   t = "none" : None                                                      *)
(*   t = "int"  : an int, n its value                                       *)
(*   t = "float": a float that is not an int object, n its integer part     *)
(***************************************************************************)
StrV(s) == [t |-> "str", s |-> s, n |-> 0]
NoneV == [t |-> "none", s |-> "", n |-> 0]
IntV(n) == [t |-> "int", s |-> "", n |-> n]
FloatV(n) == [t |-> "float", s |-> "", n |-> n]

\* the same for a value whose characters matter (pays)
CharsV(s) == [t |-> "str", s |-> s, n |-> 0]
NoneChars == [t |-> "none", s |-> <<>>, n |-> 0]

\* bool(v): the truth value Python's `not v` negates
Truthy(v) ==
    CASE v.t = "str" -> v.s # ""
      [] v.t = "none" -> FALSE
      [] OTHER -> v.n # 0

UpperChars ==
    {"A", "B", "C", "D", "E", "F", "G", "H", "I", "J", "K", "L", "M",
     "N", "O", "P", "Q", "R", "S", "T", "U", "V", "W", "X", "Y", "Z"}

LowerChars ==
    {"a", "b", "c", "d", "e", "f", "g", "h", "i", "j", "k", "l", "m",
     "n", "o", "p", "q", "r", "s", "t", "u", "v", "w", "x", "y", "z"}

\* str.isupper(): no cased character is lowercase and there is at least one
\* cased character; digits and punctuation are uncased
str_isupper(s) ==
    /\ \A i \in 1..Len(s) : s[i] \notin LowerChars
    /\ \E i \in 1..Len(s) : s[i] \in UpperChars

(***************************************************************************)
(* src/models/club.py                                                       *)
(***************************************************************************)
\* A member of the Chapeau enum (enum = TRUE, value in 1..4), or whatever
\* other object was stored in the field (enum = FALSE).
ChapeauMember(v) == [enum |-> TRUE, value |-> v]
RawChapeau(v) == [enum |-> FALSE, value |-> v]

NoClub == [id |-> "", nom |-> "", pays |-> <<>>, chapeau |-> RawChapeau(0)]

Raised(e) == [exc |-> e, obj |-> NoClub]

\* Chapeau.from_int
Chapeau_from_int(value) ==
    IF value \in 1..4
    THEN [exc |-> "none", obj |-> ChapeauMember(value)]
    ELSE [exc |-> "ValueError", obj |-> RawChapeau(0)]

\* Club(id, nom, pays, chapeau): the dataclass constructor and __post_init__
Club(id, nom, pays, chapeau) ==
    IF ~Truthy(id) \/ id.t # "str"
    THEN Raised("ValueError")
    ELSE IF ~Truthy(nom) \/ nom.t # "str"
    THEN Raised("ValueError")
    ELSE IF pays.t # "str"
    THEN Raised("TypeError")      \* len() of an object that has none
    ELSE IF Len(pays.s) # 3 \/ ~str_isupper(pays.s)
    THEN Raised("ValueError")
    ELSE [exc |-> "none",
          obj |-> [id |-> id.s, nom |-> nom.s, pays |-> pays.s,
                   chapeau |-> chapeau]]

\* Club.__eq__ / __hash__: by id only
Club_eq(a, b) == a.id = b.id

(***************************************************************************)
(* Inputs of the Club constructor                                           *)
(***************************************************************************)
MaxPaysLen == 4

PaysAlphabet == {"F", "r", "1"}

RECURSIVE Strings(_, _)
Strings(alphabet, n) ==
    IF n = 0 THEN {<<>>}
    ELSE LET shorter == Strings(alphabet, n - 1)
         IN  shorter \cup
             {Append(s, ch) : s \in {x \in shorter : Len(x) = n - 1},
                              ch \in alphabet}

IdInputs == {StrV("C01"), StrV(""), NoneV, IntV(7)}

NomInputs == {StrV("Club 01"), StrV("Club 10"), StrV(""), NoneV}

PaysInputs == {CharsV(s) : s \in Strings(PaysAlphabet, MaxPaysLen)} \cup {NoneChars}

ChapeauInputs ==
    {ChapeauMember(v) : v \in 1..4} \cup {RawChapeau(v) : v \in {0, 2, 7}}

(***************************************************************************)
(* The clubs file: 36 clubs, 9 per chapeau, built as DataLoader._parse_club *)
(* builds them (Chapeau.from_int, then the Club constructor).               *)
(***************************************************************************)
IdStr ==
    <<"C01", "C02", "C03", "C04", "C05", "C06", "C07", "C08", "C09",
      "C10", "C11", "C12", "C13", "C14", "C15", "C16", "C17", "C18",
      "C19", "C20", "C21", "C22", "C23", "C24", "C25", "C26", "C27",
      "C28", "C29", "C30", "C31", "C32", "C33", "C34", "C35", "C36">>

Countries ==
    <<(<<"F", "R", "A">>), (<<"E", "S", "P">>), (<<"E", "N", "G">>),
      (<<"G", "E", "R">>), (<<"I", "T", "A">>), (<<"P", "O", "R">>),
      (<<"N", "E", "D">>), (<<"B", "E", "L">>), (<<"S", "C", "O">>)>>

\* DataLoader._parse_club on row n of the clubs file
parse_club(n) ==
    Club(StrV(IdStr[n]), StrV(IdStr[n]), CharsV(Countries[((n - 1) % 9) + 1]),
         Chapeau_from_int(((n - 1) \div 9) + 1).obj).obj

ClubTable == [n \in 1..Len(IdStr) |-> parse_club(n)]

\* Two clubs built directly with the constructor: one that reuses the id of
\* C01 with other fields, one whose chapeau field holds a plain int.
DupIdClub == Club(StrV("C01"), StrV("Other"), CharsV(Countries[2]), ChapeauMember(2)).obj
RawPotClub == Club(StrV("C37"), StrV("C37"), CharsV(Countries[1]), RawChapeau(7)).obj

\* every id in use, in lexicographic (str <) order
AllIds == Append(IdStr, "C37")

IdSet == {AllIds[i] : i \in 1..Len(AllIds)}

\* the place of an id in that order
IdRank == [id \in IdSet |-> CHOOSE i \in 1..Len(AllIds) : AllIds[i] = id]

(***************************************************************************)
(* src/models/match.py                                                      *)
(***************************************************************************)
NoMatch == [club_home |-> NoClub, club_away |-> NoClub, journee |-> 0]

\* Variant of Match whose bound check lets journee 0 through (an off-by-one
\* in the lower bound); used to show that the formula of C8 detects it.
Match_from_zero(club_home, club_away, journee) ==
    IF Club_eq(club_home, club_away)
    THEN [exc |-> "ValueError", obj |-> NoMatch]
    ELSE IF journee.t # "int" \/ journee.n < 0 \/ journee.n > 8
    THEN [exc |-> "ValueError", obj |-> NoMatch]
    ELSE [exc |-> "none",
          obj |-> [club_home |-> club_home, club_away |-> club_away,
                   journee |-> journee.n]]

\* Variant of Match whose __post_init__ checks nothing; used to show that the
\* formula of C19 detects it.
Match_unchecked(club_home, club_away, journee) ==
    IF journee.t # "int"
    THEN [exc |-> "ValueError", obj |-> NoMatch]
    ELSE [exc |-> "none",
          obj |-> [club_home |-> club_home, club_away |-> club_away,
                   journee |-> journee.n]]

\* Match(club_home, club_away, journee): the constructor and __post_init__.
\* journee is a Python value; a bool is an int (True is 1).
Match(club_home, club_away, journee) ==
    IF Club_eq(club_home, club_away)
    THEN [exc |-> "ValueError", obj |-> NoMatch]
    ELSE IF journee.t # "int" \/ journee.n < 1 \/ journee.n > 8
    THEN [exc |-> "ValueError", obj |-> NoMatch]
    ELSE [exc |-> "none",
          obj |-> [club_home |-> club_home, club_away |-> club_away,
                   journee |-> journee.n]]

\* Variant of Match_eq that forgets the direction (the pair of ids as a set);
\* used to show that the formula of C7 detects it.
Match_eq_undirected(m1, m2) ==
    /\ {m1.club_home.id, m1.club_away.id} = {m2.club_home.id, m2.club_away.id}
    /\ m1.journee = m2.journee

\* Match.__eq__ / __hash__: (home id, away id, journee)
Match_eq(m1, m2) ==
    /\ Club_eq(m1.club_home, m2.club_home)
    /\ Club_eq(m1.club_away, m2.club_away)
    /\ m1.journee = m2.journee

\* Match.implies_reverse_match: a new Match, through the constructor
implies_reverse_match(m) == Match(m.club_away, m.club_home, IntV(m.journee))

involves_club(m, c) == Club_eq(c, m.club_home) \/ Club_eq(c, m.club_away)

\* Match.opponent_of, for a club that takes part in the match
opponent_of(m, c) == IF Club_eq(c, m.club_home) THEN m.club_away ELSE m.club_home

(***************************************************************************)
(* Inputs of the Match constructor                                          *)
(***************************************************************************)
MatchClubs == {ClubTable[1], ClubTable[2], ClubTable[10], DupIdClub, RawPotClub}

JourneeInputs ==
    {IntV(n) : n \in 0..(JOURNEES + 1)} \cup {FloatV(1), StrV("1"), NoneV}

(***************************************************************************)
(* Sequence helpers                                                         *)
(***************************************************************************)
Min(S) == CHOOSE x \in S : \A y \in S : x <= y

RECURSIVE Flatten(_)
Flatten(ss) == IF ss = <<>> THEN <<>> ELSE Head(ss) \o Flatten(Tail(ss))

\* sorted(list(S)) for a set of ints
SortedInts(S) ==
    [k \in 1..Cardinality(S) |->
        CHOOSE x \in S : Cardinality({y \in S : y < x}) = k - 1]

\* the entries e of the candidates [on, e] that are on, in order
Kept(cands) ==
    LET sel == SelectSeq(cands, LAMBDA x : x.on)
    IN  [k \in 1..Len(sel) |-> sel[k].e]

Reversed(s) == [i \in 1..Len(s) |-> s[Len(s) + 1 - i]]

(***************************************************************************)
(* src/models/draw.py                                                       *)
(***************************************************************************)
Season == "2025-26"

EmptyDraw == [matches |-> <<>>, season |-> Season]

\* Draw(matches=..., season=...): the dataclass constructor and __post_init__;
\* isNone says that matches=None was passed.  The list is stored as given.
Draw(isNone, matches, season) ==
    [matches |-> IF isNone THEN <<>> ELSE matches, season |-> season]

\* `match in self.matches`: list membership, by Match.__eq__
match_in(m, ms) == \E i \in 1..Len(ms) : Match_eq(ms[i], m)

\* Variant of add_match without the membership test; used to show that the
\* formula of C4 detects it.
add_match_unchecked(d, m) ==
    [exc |-> "none", draw |-> [d EXCEPT !.matches = Append(@, m)]]

\* Variant of add_match that also refuses a match between two clubs already
\* paired in the draw; used to show that the formula of C5 detects it.
add_match_pair_checked(d, m) ==
    IF \/ match_in(m, d.matches)
       \/ \E i \in 1..Len(d.matches) :
             {d.matches[i].club_home.id, d.matches[i].club_away.id}
                 = {m.club_home.id, m.club_away.id}
    THEN [exc |-> "ValueError", draw |-> d]
    ELSE [exc |-> "none", draw |-> [d EXCEPT !.matches = Append(@, m)]]

\* Draw.add_match: the draw after the call and the exception raised, if any
add_match(d, m) ==
    IF match_in(m, d.matches)
    THEN [exc |-> "ValueError", draw |-> d]
    ELSE [exc |-> "none", draw |-> [d EXCEPT !.matches = Append(@, m)]]

\* Variant of add_matches that inserts nothing when one of the matches is
\* refused; used to show that the formula of C26 detects it.
add_matches_all_or_nothing(d, ms) ==
    IF \/ \E i \in 1..Len(ms) : match_in(ms[i], d.matches)
       \/ \E i, k \in 1..Len(ms) : i < k /\ Match_eq(ms[i], ms[k])
    THEN [exc |-> "ValueError", draw |-> d]
    ELSE [exc |-> "none", draw |-> [d EXCEPT !.matches = @ \o ms]]

\* Draw.add_matches: add_match on each in turn; the first exception ends it
RECURSIVE add_matches(_, _)
add_matches(d, ms) ==
    IF ms = <<>> THEN [exc |-> "none", draw |-> d]
    ELSE LET r == add_match(d, Head(ms))
         IN  IF r.exc # "none" THEN r ELSE add_matches(r.draw, Tail(ms))

get_matches_for_club(d, c) == SelectSeq(d.matches, LAMBDA m : involves_club(m, c))

get_home_matches_for_club(d, c) ==
    SelectSeq(d.matches, LAMBDA m : Club_eq(m.club_home, c))

get_away_matches_for_club(d, c) ==
    SelectSeq(d.matches, LAMBDA m : Club_eq(m.club_away, c))

get_number_of_matches_for_club(d, c) == Len(get_matches_for_club(d, c))

get_number_of_home_matches_for_club(d, c) == Len(get_home_matches_for_club(d, c))

get_number_of_away_matches_for_club(d, c) == Len(get_away_matches_for_club(d, c))

\* sorted(ids): by str <
SortedIds(ids) == SelectSeq(AllIds, LAMBDA id : id \in ids)

\* The order in which a set of clubs is iterated.  It follows the hashes of
\* the ids, which are fixed for the life of the process and differ from one
\* process to the next: hashSeed picks one of two orders.
SetOrder(ids) == IF hashSeed = 0 THEN SortedIds(ids) ELSE Reversed(SortedIds(ids))

\* the ids of the clubs of the matches ms
ClubIds(ms) ==
    {ms[i].club_home.id : i \in 1..Len(ms)} \cup {ms[i].club_away.id : i \in 1..Len(ms)}

\* the first Club object with this id that the loop over ms adds to the set
\* (home is added before away; adding an equal object changes nothing)
FirstClub(ms, id) ==
    LET m == ms[Min({i \in 1..Len(ms) :
                       ms[i].club_home.id = id \/ ms[i].club_away.id = id})]
    IN  IF m.club_home.id = id THEN m.club_home ELSE m.club_away

ClubsInOrder(ms, ids) == [k \in 1..Len(ids) |-> FirstClub(ms, ids[k])]

\* Draw.get_all_clubs, as the sequence its iteration yields
get_all_clubs(d) == ClubsInOrder(d.matches, SetOrder(ClubIds(d.matches)))

\* the first opponent object of c with each id of ids among the matches ms of c
OpponentsInOrder(ms, c, ids) ==
    [k \in 1..Len(ids) |->
        opponent_of(ms[Min({i \in 1..Len(ms) : opponent_of(ms[i], c).id = ids[k]})], c)]

OpponentsOf(ms, c) ==
    OpponentsInOrder(ms, c, SortedIds({opponent_of(ms[i], c).id : i \in 1..Len(ms)}))

\* Variant of get_opponents_for_club that collects the opponents in a list,
\* one per match, where the code collects them in a set; used to show that
\* the formula of C20 detects it.
get_opponents_per_match(d, c) ==
    [i \in 1..Len(get_matches_for_club(d, c)) |->
        opponent_of(get_matches_for_club(d, c)[i], c)]

\* Draw.get_opponents_for_club: the set of opponents (first object added
\* among equal ones), sorted by id
get_opponents_for_club(d, c) == OpponentsOf(get_matches_for_club(d, c), c)

ClashesAmong(d, c, opps) ==
    [k \in 1..Len(opps) |->
        <<opps[k],
          Len(SelectSeq(d.matches,
              LAMBDA m : involves_club(m, c) /\ Club_eq(opponent_of(m, c), opps[k])))>>]

\* Draw.get_country_clashes_for_club: (opponent, number of matches) pairs
get_country_clashes_for_club(d, c) ==
    ClashesAmong(d, c, SelectSeq(get_opponents_for_club(d, c), LAMBDA o : o.pays = c.pays))

(***************************************************************************)
(* src/constraints/ucl_constraints.py                                       *)
(* A check returns "T" (True), "F" (False) or "E": it raised AttributeError *)
(* on `.chapeau.value` of a club whose chapeau is no Chapeau member.  The   *)
(* checks loop over get_all_clubs and return at the first failing club.     *)
(***************************************************************************)
\* the first status that is not "T", or "T"
FirstNotTrue(st) ==
    IF \A i \in DOMAIN st : st[i] = "T" THEN "T"
    ELSE st[Min({i \in DOMAIN st : st[i] # "T"})]

\* the outcome of `for club in clubs: <body>; return True`, where the body
\* of club c ends the loop with St(c) unless that is "T"
ForEachClub(clubs, St(_)) == FirstNotTrue([i \in 1..Len(clubs) |-> St(clubs[i])])

Bool(b) == IF b THEN "T" ELSE "F"

check_total_matches(d) == Bool(Len(d.matches) = get_expected_total_matches)

check_matches_per_club(d) ==
    ForEachClub(get_all_clubs(d),
        LAMBDA c : Bool(get_number_of_matches_for_club(d, c) = MATCHES_PER_CLUB))

check_home_away_balance(d) ==
    ForEachClub(get_all_clubs(d),
        LAMBDA c : Bool(/\ get_number_of_home_matches_for_club(d, c) = HOME_MATCHES_PER_CLUB
                        /\ get_number_of_away_matches_for_club(d, c) = AWAY_MATCHES_PER_CLUB))

\* the body of the loop of _check_opponents_per_chapeau for the opponents opps
opponents_per_chapeau_of(opps) ==
    IF \E i \in 1..Len(opps) : ~opps[i].chapeau.enum
    THEN "E"
    ELSE Bool(\A ch \in DOMAIN OPPONENTS_PER_CHAPEAU :
                  Cardinality({i \in 1..Len(opps) : opps[i].chapeau.value = ch})
                      = OPPONENTS_PER_CHAPEAU[ch])

check_opponents_per_chapeau(d) ==
    ForEachClub(get_all_clubs(d),
        LAMBDA c : opponents_per_chapeau_of(get_opponents_for_club(d, c)))

\* Variant of distribution_of that compares, for each pot, the number of
\* matches against the pot with the sum of the two configured values; used
\* to show that the formula of C21 detects it.
distribution_of_totals(homes, aways) ==
    IF \/ \E i \in 1..Len(homes) : ~homes[i].club_away.chapeau.enum
       \/ \E i \in 1..Len(aways) : ~aways[i].club_home.chapeau.enum
    THEN "E"
    ELSE Bool(\A ch \in DOMAIN DISTRIBUTION_CHAPEAUX :
                Cardinality({i \in 1..Len(homes) :
                                homes[i].club_away.chapeau.value = ch})
                + Cardinality({i \in 1..Len(aways) :
                                  aways[i].club_home.chapeau.value = ch})
                    = DISTRIBUTION_CHAPEAUX[ch][1] + DISTRIBUTION_CHAPEAUX[ch][2])

\* the body of the loop of _check_chapeau_home_away_distribution for the
\* home matches and the away matches of a club
distribution_of(homes, aways) ==
    IF \/ \E i \in 1..Len(homes) : ~homes[i].club_away.chapeau.enum
       \/ \E i \in 1..Len(aways) : ~aways[i].club_home.chapeau.enum
    THEN "E"
    ELSE Bool(\A ch \in DOMAIN DISTRIBUTION_CHAPEAUX :
                /\ Cardinality({i \in 1..Len(homes) :
                                  homes[i].club_away.chapeau.value = ch})
                       = DISTRIBUTION_CHAPEAUX[ch][1]
                /\ Cardinality({i \in 1..Len(aways) :
                                  aways[i].club_home.chapeau.value = ch})
                       = DISTRIBUTION_CHAPEAUX[ch][2])

check_chapeau_home_away_distribution(d) ==
    ForEachClub(get_all_clubs(d),
        LAMBDA c : distribution_of(get_home_matches_for_club(d, c),
                                   get_away_matches_for_club(d, c)))

check_no_same_country_opponents(d) ==
    ForEachClub(get_all_clubs(d),
        LAMBDA c : Bool(Len(get_country_clashes_for_club(d, c))
                            <= MAX_SAME_COUNTRY_OPPONENTS))

\* the body of the loop of _check_max_two_from_same_foreign_country for the
\* opponents opps from other countries
foreign_countries_of(opps) ==
    Bool(\A i \in 1..Len(opps) :
             Cardinality({k \in 1..Len(opps) : opps[k].pays = opps[i].pays})
                 <= MAX_OPPONENTS_PER_FOREIGN_COUNTRY)

\* Variant of check_max_two_from_same_foreign_country that also counts the
\* opponents of the club's own country; used to show that the formula of
\* C22 detects it.
check_max_two_from_any_country(d) ==
    ForEachClub(get_all_clubs(d),
        LAMBDA c : foreign_countries_of(get_opponents_for_club(d, c)))

check_max_two_from_same_foreign_country(d) ==
    ForEachClub(get_all_clubs(d),
        LAMBDA c : foreign_countries_of(
                       SelectSeq(get_opponents_for_club(d, c), LAMBDA o : o.pays # c.pays)))

ByJournee(ms, keys) ==
    Flatten([k \in 1..Len(keys) |-> SelectSeq(ms, LAMBDA m : m.journee = keys[k])])

\* Variant of sorted_by_journee that leaves the matches in the order of the
\* list; used to show that the formula of C23 detects it.
in_list_order(ms) == ms

\* sorted(matches, key=lambda m: m.journee): stable
sorted_by_journee(ms) == ByJournee(ms, SortedInts({ms[i].journee : i \in 1..Len(ms)}))

\* the H/A sequence of club c over its matches ms
venues(ms, c) == [i \in 1..Len(ms) |-> IF Club_eq(ms[i].club_home, c) THEN "H" ELSE "A"]

\* the loop over the H/A sequence from position i with the two counters:
\* TRUE when a counter exceeds its maximum
RECURSIVE streak_exceeds(_, _, _, _)
streak_exceeds(sequence, i, consecutive_home, consecutive_away) ==
    IF i > Len(sequence) THEN FALSE
    ELSE LET h == IF sequence[i] = "H" THEN consecutive_home + 1 ELSE 0
             a == IF sequence[i] = "H" THEN 0 ELSE consecutive_away + 1
         IN  IF h > MAX_CONSECUTIVE_HOME_MATCHES \/ a > MAX_CONSECUTIVE_AWAY_MATCHES
             THEN TRUE
             ELSE streak_exceeds(sequence, i + 1, h, a)

check_no_consecutive_matches(d) ==
    ForEachClub(get_all_clubs(d),
        LAMBDA c : Bool(~streak_exceeds(
                            venues(sorted_by_journee(get_matches_for_club(d, c)), c),
                            1, 0, 0)))

\* UCLConstraints._build_constraints: the rules in registration order
constraints ==
    <<[name |-> "total_matches", severity |-> "hard"],
      [name |-> "matches_per_club", severity |-> "hard"],
      [name |-> "home_away_balance", severity |-> "hard"],
      [name |-> "opponents_per_chapeau", severity |-> "hard"],
      [name |-> "chapeau_home_away_distribution", severity |-> "hard"],
      [name |-> "no_same_country_opponents", severity |-> "hard"],
      [name |-> "max_two_from_same_foreign_country", severity |-> "hard"],
      [name |-> "no_consecutive_matches", severity |-> "soft"]>>

\* Constraint.is_satisfied: the rule's check_fn
is_satisfied(c, d) ==
    CASE c.name = "total_matches" -> check_total_matches(d)
      [] c.name = "matches_per_club" -> check_matches_per_club(d)
      [] c.name = "home_away_balance" -> check_home_away_balance(d)
      [] c.name = "opponents_per_chapeau" -> check_opponents_per_chapeau(d)
      [] c.name = "chapeau_home_away_distribution" ->
             check_chapeau_home_away_distribution(d)
      [] c.name = "no_same_country_opponents" -> check_no_same_country_opponents(d)
      [] c.name = "max_two_from_same_foreign_country" ->
             check_max_two_from_same_foreign_country(d)
      [] c.name = "no_consecutive_matches" -> check_no_consecutive_matches(d)

get_hard_constraints == SelectSeq(constraints, LAMBDA c : c.severity = "hard")

get_soft_constraints == SelectSeq(constraints, LAMBDA c : c.severity = "soft")

NamesOf(cs, failing) == [k \in 1..Len(failing) |-> cs[failing[k]].name]

\* Variant of Violations that leaves the loop at the first rule that is not
\* satisfied; used to show that the formula of C12 detects it.
Violations_first_only(cs, res) ==
    IF \E i \in 1..Len(cs) : res[i] = "E"
    THEN [exc |-> "AttributeError", ok |-> FALSE, violated |-> <<>>]
    ELSE [exc |-> "none",
          ok |-> \A i \in 1..Len(cs) : res[i] = "T",
          violated |-> IF \A i \in 1..Len(cs) : res[i] = "T" THEN <<>>
                       ELSE <<cs[Min({i \in 1..Len(cs) : res[i] = "F"})].name>>]

\* what the loop over the rules cs gives when rule i ends with res[i]
Violations(cs, res) ==
    IF \E i \in 1..Len(cs) : res[i] = "E"
    THEN [exc |-> "AttributeError", ok |-> FALSE, violated |-> <<>>]
    ELSE [exc |-> "none",
          ok |-> \A i \in 1..Len(cs) : res[i] = "T",
          violated |-> NamesOf(cs, SelectSeq([i \in 1..Len(cs) |-> i],
                                             LAMBDA i : res[i] = "F"))]

\* the names of the rules of cs that are not satisfied, in the order of cs;
\* a check that raises ends the loop with its exception
violated_of(cs, d) == Violations(cs, [i \in 1..Len(cs) |-> is_satisfied(cs[i], d)])

verify_hard_constraints(d) == violated_of(get_hard_constraints, d)

verify_all_constraints(d) == violated_of(constraints, d)

(***************************************************************************)
(* src/validators/draw_validator.py                                         *)
(* An entry of the error or warning list is the record of what its string   *)
(* says.                                                                    *)
(***************************************************************************)
Entry(kind, id, id2, j, n, exp, days, names) ==
    [kind |-> kind, id |-> id, id2 |-> id2, j |-> j, n |-> n, exp |-> exp,
     days |-> days, names |-> names]

\* tuple(sorted((home.id, away.id)))
pair_key(m) ==
    IF IdRank[m.club_home.id] <= IdRank[m.club_away.id]
    THEN <<m.club_home.id, m.club_away.id>>
    ELSE <<m.club_away.id, m.club_home.id>>

\* a) self-matches and journee bounds, match by match
\* (candidate 2i-1 is the first entry of match i, candidate 2i its second)
bounds_errors(ms) ==
    Kept([k \in 1..(2 * Len(ms)) |->
        IF k % 2 = 1
        THEN [on |-> ms[(k + 1) \div 2].club_home.id = ms[(k + 1) \div 2].club_away.id,
              e |-> Entry("self_match", ms[(k + 1) \div 2].club_home.id, "",
                          ms[(k + 1) \div 2].journee, 0, 0, <<>>, <<>>)]
        ELSE [on |-> ~(1 <= ms[(k + 1) \div 2].journee
                       /\ ms[(k + 1) \div 2].journee <= JOURNEES),
              e |-> Entry("journee_bounds", ms[(k + 1) \div 2].club_home.id,
                          ms[(k + 1) \div 2].club_away.id,
                          ms[(k + 1) \div 2].journee, 0, 0, <<>>, <<>>)]])

\* b) the total
total_errors(ms) ==
    IF Len(ms) # get_expected_total_matches
    THEN <<Entry("total", "", "", 0, Len(ms), get_expected_total_matches, <<>>, <<>>)>>
    ELSE <<>>

\* c) the counters, as the values the dicts hold after the loop over ms
per_day_per_club(ms, id, day) ==
    Cardinality({i \in 1..Len(ms) : ms[i].club_home.id = id /\ ms[i].journee = day})
    + Cardinality({i \in 1..Len(ms) : ms[i].club_away.id = id /\ ms[i].journee = day})

pair_days(ms, key) == {ms[i].journee : i \in {k \in 1..Len(ms) : pair_key(ms[k]) = key}}

home_count(ms, id) == Cardinality({i \in 1..Len(ms) : ms[i].club_home.id = id})

away_count(ms, id) == Cardinality({i \in 1..Len(ms) : ms[i].club_away.id = id})

\* Variant of per_day_errors that reports the journees in which a club plays
\* more than once and not those in which it does not play; used to show that
\* the formula of C13 detects it.
per_day_errors_excess_only(ms, clubs) ==
    Kept([k \in 1..(Len(clubs) * JOURNEES) |->
        [on |-> per_day_per_club(ms, clubs[((k - 1) \div JOURNEES) + 1].id,
                                 ((k - 1) % JOURNEES) + 1) > 1,
         e |-> Entry("per_day", clubs[((k - 1) \div JOURNEES) + 1].id, "",
                     ((k - 1) % JOURNEES) + 1,
                     per_day_per_club(ms, clubs[((k - 1) \div JOURNEES) + 1].id,
                                      ((k - 1) % JOURNEES) + 1),
                     1, <<>>, <<>>)]])

\* exactly one match per club and journee (club by club, day by day:
\* candidate (i-1)*JOURNEES + d is day d of club i)
per_day_errors(ms, clubs) ==
    Kept([k \in 1..(Len(clubs) * JOURNEES) |->
        [on |-> per_day_per_club(ms, clubs[((k - 1) \div JOURNEES) + 1].id,
                                 ((k - 1) % JOURNEES) + 1) # 1,
         e |-> Entry("per_day", clubs[((k - 1) \div JOURNEES) + 1].id, "",
                     ((k - 1) % JOURNEES) + 1,
                     per_day_per_club(ms, clubs[((k - 1) \div JOURNEES) + 1].id,
                                      ((k - 1) % JOURNEES) + 1),
                     1, <<>>, <<>>)]])

\* the entries of the pairs met on several days; firsts holds the place of
\* the first match of each pair (the keys of pair_days in insertion order)
pair_entries(ms, firsts) ==
    Kept([k \in 1..Len(firsts) |->
        [on |-> Cardinality(pair_days(ms, pair_key(ms[firsts[k]]))) > 1,
         e |-> Entry("pair", pair_key(ms[firsts[k]])[1], pair_key(ms[firsts[k]])[2],
                     0, 0, 0, SortedInts(pair_days(ms, pair_key(ms[firsts[k]]))), <<>>)]])

pair_errors(ms) ==
    pair_entries(ms, SelectSeq([i \in 1..Len(ms) |-> i],
                     LAMBDA i : \A k \in 1..(i - 1) : pair_key(ms[k]) # pair_key(ms[i])))

\* Variant of home_away_errors that reports the counts above the configured
\* values and not those below; used to show that the formula of C15 detects
\* it.
home_away_errors_excess_only(ms, clubs) ==
    Kept([k \in 1..(2 * Len(clubs)) |->
        IF k % 2 = 1
        THEN [on |-> home_count(ms, clubs[(k + 1) \div 2].id) > HOME_MATCHES_PER_CLUB,
              e |-> Entry("home", clubs[(k + 1) \div 2].id, "", 0,
                          home_count(ms, clubs[(k + 1) \div 2].id),
                          HOME_MATCHES_PER_CLUB, <<>>, <<>>)]
        ELSE [on |-> away_count(ms, clubs[(k + 1) \div 2].id) > AWAY_MATCHES_PER_CLUB,
              e |-> Entry("away", clubs[(k + 1) \div 2].id, "", 0,
                          away_count(ms, clubs[(k + 1) \div 2].id),
                          AWAY_MATCHES_PER_CLUB, <<>>, <<>>)]])

\* d) home and away counts
\* (candidate 2i-1 is the home entry of club i, candidate 2i its away entry)
home_away_errors(ms, clubs) ==
    Kept([k \in 1..(2 * Len(clubs)) |->
        IF k % 2 = 1
        THEN [on |-> home_count(ms, clubs[(k + 1) \div 2].id) # HOME_MATCHES_PER_CLUB,
              e |-> Entry("home", clubs[(k + 1) \div 2].id, "", 0,
                          home_count(ms, clubs[(k + 1) \div 2].id),
                          HOME_MATCHES_PER_CLUB, <<>>, <<>>)]
        ELSE [on |-> away_count(ms, clubs[(k + 1) \div 2].id) # AWAY_MATCHES_PER_CLUB,
              e |-> Entry("away", clubs[(k + 1) \div 2].id, "", 0,
                          away_count(ms, clubs[(k + 1) \div 2].id),
                          AWAY_MATCHES_PER_CLUB, <<>>, <<>>)]])

\* Variant of internal_errors without part d), the home and away counts;
\* used to show that the formula of C25 detects it.
internal_errors_without_home_away(ms, clubs) ==
    bounds_errors(ms) \o total_errors(ms) \o per_day_errors(ms, clubs)
        \o pair_errors(ms)

internal_errors(ms, clubs) ==
    bounds_errors(ms) \o total_errors(ms) \o per_day_errors(ms, clubs)
        \o pair_errors(ms) \o home_away_errors(ms, clubs)

\* DrawValidator._check_internal_consistency
check_internal_consistency(d) == internal_errors(d.matches, get_all_clubs(d))

\* Variant of validate_result in which a soft violation also fails the draw;
\* used to show that the formula of C1 detects it.
validate_soft_fails(structural, hard, soft) ==
    LET errors == IF hard.ok THEN structural
                  ELSE Append(structural,
                              Entry("hard", "", "", 0, 0, 0, <<>>, hard.violated))
        warnings == IF Len(soft.violated) > 0
                    THEN <<Entry("soft", "", "", 0, 0, 0, <<>>, soft.violated)>>
                    ELSE <<>>
    IN  IF hard.exc # "none"
        THEN [exc |-> hard.exc, ok |-> FALSE, errors |-> <<>>, warnings |-> <<>>]
        ELSE IF soft.exc # "none"
        THEN [exc |-> soft.exc, ok |-> FALSE, errors |-> <<>>, warnings |-> <<>>]
        ELSE [exc |-> "none", ok |-> Len(errors) = 0 /\ Len(warnings) = 0,
              errors |-> errors, warnings |-> warnings]

\* Variant of validate_result that reports one entry per failing hard rule,
\* ahead of the structural entries; used to show that the formula of C2
\* detects it.
validate_entry_per_rule(structural, hard, soft) ==
    LET errors == [k \in 1..Len(hard.violated) |->
                      Entry("hard", "", "", 0, 0, 0, <<>>, <<hard.violated[k]>>)]
                  \o structural
        warnings == IF Len(soft.violated) > 0
                    THEN <<Entry("soft", "", "", 0, 0, 0, <<>>, soft.violated)>>
                    ELSE <<>>
    IN  IF hard.exc # "none"
        THEN [exc |-> hard.exc, ok |-> FALSE, errors |-> <<>>, warnings |-> <<>>]
        ELSE IF soft.exc # "none"
        THEN [exc |-> soft.exc, ok |-> FALSE, errors |-> <<>>, warnings |-> <<>>]
        ELSE [exc |-> "none", ok |-> Len(errors) = 0,
              errors |-> errors, warnings |-> warnings]

\* Variant of validate_result that looks at the soft rules only when no error
\* was found; used to show that the formula of C3 detects it.
validate_soft_skipped(structural, hard, soft) ==
    LET errors == IF hard.ok THEN structural
                  ELSE Append(structural,
                              Entry("hard", "", "", 0, 0, 0, <<>>, hard.violated))
        warnings == IF Len(errors) = 0 /\ Len(soft.violated) > 0
                    THEN <<Entry("soft", "", "", 0, 0, 0, <<>>, soft.violated)>>
                    ELSE <<>>
    IN  IF hard.exc # "none"
        THEN [exc |-> hard.exc, ok |-> FALSE, errors |-> <<>>, warnings |-> <<>>]
        ELSE IF Len(errors) = 0 /\ soft.exc # "none"
        THEN [exc |-> soft.exc, ok |-> FALSE, errors |-> <<>>, warnings |-> <<>>]
        ELSE [exc |-> "none", ok |-> Len(errors) = 0,
              errors |-> errors, warnings |-> warnings]

\* Variant of validate_result whose flag tells that there is no warning,
\* whatever the errors; used to show that the formula of C27 detects it.
validate_warnings_decide(structural, hard, soft) ==
    LET errors == IF hard.ok THEN structural
                  ELSE Append(structural,
                              Entry("hard", "", "", 0, 0, 0, <<>>, hard.violated))
        warnings == IF Len(soft.violated) > 0
                    THEN <<Entry("soft", "", "", 0, 0, 0, <<>>, soft.violated)>>
                    ELSE <<>>
    IN  IF hard.exc # "none"
        THEN [exc |-> hard.exc, ok |-> FALSE, errors |-> <<>>, warnings |-> <<>>]
        ELSE IF soft.exc # "none"
        THEN [exc |-> soft.exc, ok |-> FALSE, errors |-> <<>>, warnings |-> <<>>]
        ELSE [exc |-> "none", ok |-> Len(warnings) = 0,
              errors |-> errors, warnings |-> warnings]

\* the body of DrawValidator.validate, given what its three layers return:
\* the structural entries, verify_hard_constraints and the soft rules
validate_result(structural, hard, soft) ==
    LET errors == IF hard.ok THEN structural
                  ELSE Append(structural,
                              Entry("hard", "", "", 0, 0, 0, <<>>, hard.violated))
        warnings == IF Len(soft.violated) > 0
                    THEN <<Entry("soft", "", "", 0, 0, 0, <<>>, soft.violated)>>
                    ELSE <<>>
    IN  IF hard.exc # "none"
        THEN [exc |-> hard.exc, ok |-> FALSE, errors |-> <<>>, warnings |-> <<>>]
        ELSE IF soft.exc # "none"
        THEN [exc |-> soft.exc, ok |-> FALSE, errors |-> <<>>, warnings |-> <<>>]
        ELSE [exc |-> "none", ok |-> Len(errors) = 0,
              errors |-> errors, warnings |-> warnings]

\* DrawValidator.validate: (ok, errors, warnings), or the exception raised
validate(d) ==
    validate_result(check_internal_consistency(d), verify_hard_constraints(d),
                    violated_of(get_soft_constraints, d))

(***************************************************************************)
(* src/utils/solution_loader.py                                             *)
(* A row of the draw file is {club_home_id, club_away_id, journee}: two     *)
(* strings and a Python value.                                              *)
(***************************************************************************)
\* str.strip() on the id strings in use
strip(s) ==
    CASE s = " C01" -> "C01"
      [] s = "C02 " -> "C02"
      [] OTHER -> s

\* int(v)
py_int(v) ==
    CASE v.t = "int" -> [exc |-> "none", n |-> v.n]
      [] v.t = "float" -> [exc |-> "none", n |-> v.n]
      [] v.t = "str" /\ v.s = "1" -> [exc |-> "none", n |-> 1]
      [] v.t = "str" /\ v.s = "2" -> [exc |-> "none", n |-> 2]
      [] v.t = "str" -> [exc |-> "ValueError", n |-> 0]
      [] OTHER -> [exc |-> "TypeError", n |-> 0]

\* SolutionLoader._build_club_index: fails on a repeated id
build_club_index_ok(clubs) ==
    \A i, k \in 1..Len(clubs) : i # k => clubs[i].id # clubs[k].id

\* SolutionLoader.load_draw_from_file on a parsed payload and a list of clubs:
\* the Draw returned, or DrawImportError
load_draw_from_file(payload, clubs) ==
    LET rows == payload.matches
        known(id) == \E n \in 1..Len(clubs) : clubs[n].id = id
        club_by_id(id) == clubs[CHOOSE n \in 1..Len(clubs) : clubs[n].id = id]
        row_match(row) ==
            LET h == strip(row.club_home_id)
                a == strip(row.club_away_id)
                dj == py_int(row.journee)
            IN  IF dj.exc # "none" THEN [exc |-> "DrawImportError", obj |-> NoMatch]
                ELSE IF ~known(h) \/ ~known(a)
                THEN [exc |-> "DrawImportError", obj |-> NoMatch]
                ELSE IF Match(club_by_id(h), club_by_id(a), IntV(dj.n)).exc # "none"
                THEN [exc |-> "DrawImportError", obj |-> NoMatch]
                ELSE Match(club_by_id(h), club_by_id(a), IntV(dj.n))
        res == [i \in 1..Len(rows) |-> row_match(rows[i])]
    IN  IF Len(rows) = 0 THEN [exc |-> "DrawImportError", draw |-> EmptyDraw]
        ELSE IF Len(clubs) = 0 THEN [exc |-> "DrawImportError", draw |-> EmptyDraw]
        ELSE IF ~build_club_index_ok(clubs)
        THEN [exc |-> "DrawImportError", draw |-> EmptyDraw]
        ELSE IF \E i \in 1..Len(rows) : res[i].exc # "none"
        THEN [exc |-> "DrawImportError", draw |-> EmptyDraw]
        ELSE [exc |-> "none",
              draw |-> Draw(FALSE, [i \in 1..Len(rows) |-> res[i].obj], payload.season)]

(***************************************************************************)
(* Draw files.  FullRows is a complete draw of the 36 clubs that keeps      *)
(* every rule, as <<journee, home, away>> with the clubs' row numbers.      *)
(***************************************************************************)
FullRows ==
    <<
      <<1, 1, 22>>, <<1, 2, 34>>, <<1, 6, 27>>, <<1, 8, 9>>, <<1, 10, 12>>, <<1, 13, 23>>,
      <<1, 14, 35>>, <<1, 15, 17>>, <<1, 16, 5>>, <<1, 18, 7>>, <<1, 24, 19>>, <<1, 25, 3>>,
      <<1, 26, 36>>, <<1, 28, 4>>, <<1, 29, 30>>, <<1, 31, 20>>, <<1, 32, 21>>, <<1, 33, 11>>,
      <<2, 2, 3>>, <<2, 4, 25>>, <<2, 5, 15>>, <<2, 7, 30>>, <<2, 11, 9>>, <<2, 14, 16>>,
      <<2, 17, 10>>, <<2, 19, 6>>, <<2, 20, 24>>, <<2, 21, 8>>, <<2, 22, 26>>, <<2, 23, 12>>,
      <<2, 29, 27>>, <<2, 31, 18>>, <<2, 32, 33>>, <<2, 34, 1>>, <<2, 35, 13>>, <<2, 36, 28>>,
      <<3, 1, 2>>, <<3, 3, 24>>, <<3, 4, 5>>, <<3, 8, 18>>, <<3, 9, 21>>, <<3, 10, 31>>,
      <<3, 11, 13>>, <<3, 12, 33>>, <<3, 19, 17>>, <<3, 20, 7>>, <<3, 22, 32>>, <<3, 25, 14>>,
      <<3, 26, 15>>, <<3, 27, 16>>, <<3, 28, 29>>, <<3, 30, 6>>, <<3, 34, 23>>, <<3, 35, 36>>,
      <<4, 3, 4>>, <<4, 5, 26>>, <<4, 6, 7>>, <<4, 8, 20>>, <<4, 9, 1>>, <<4, 12, 14>>,
      <<4, 13, 34>>, <<4, 15, 36>>, <<4, 16, 28>>, <<4, 17, 29>>, <<4, 18, 11>>, <<4, 21, 31>>,
      <<4, 23, 27>>, <<4, 24, 2>>, <<4, 25, 35>>, <<4, 30, 19>>, <<4, 32, 10>>, <<4, 33, 22>>,
      <<5, 2, 12>>, <<5, 5, 6>>, <<5, 7, 17>>, <<5, 10, 8>>, <<5, 13, 15>>, <<5, 14, 24>>,
      <<5, 18, 19>>, <<5, 20, 30>>, <<5, 21, 25>>, <<5, 22, 11>>, <<5, 23, 1>>, <<5, 26, 4>>,
      <<5, 27, 28>>, <<5, 29, 16>>, <<5, 31, 32>>, <<5, 33, 9>>, <<5, 34, 35>>, <<5, 36, 3>>,
      <<6, 1, 33>>, <<6, 4, 36>>, <<6, 6, 16>>, <<6, 9, 10>>, <<6, 11, 21>>, <<6, 14, 3>>,
      <<6, 15, 25>>, <<6, 19, 23>>, <<6, 20, 18>>, <<6, 24, 13>>, <<6, 27, 22>>, <<6, 28, 26>>,
      <<6, 29, 5>>, <<6, 30, 17>>, <<6, 31, 7>>, <<6, 32, 8>>, <<6, 34, 12>>, <<6, 35, 2>>,
      <<7, 2, 23>>, <<7, 3, 13>>, <<7, 5, 28>>, <<7, 6, 29>>, <<7, 7, 19>>, <<7, 8, 31>>,
      <<7, 11, 32>>, <<7, 12, 1>>, <<7, 15, 4>>, <<7, 16, 26>>, <<7, 17, 27>>, <<7, 18, 30>>,
      <<7, 21, 10>>, <<7, 22, 9>>, <<7, 25, 20>>, <<7, 33, 34>>, <<7, 35, 24>>, <<7, 36, 14>>,
      <<8, 1, 11>>, <<8, 3, 35>>, <<8, 4, 14>>, <<8, 7, 8>>, <<8, 9, 32>>, <<8, 10, 20>>,
      <<8, 12, 22>>, <<8, 13, 2>>, <<8, 16, 18>>, <<8, 17, 6>>, <<8, 19, 29>>, <<8, 23, 33>>,
      <<8, 24, 34>>, <<8, 26, 21>>, <<8, 27, 5>>, <<8, 28, 15>>, <<8, 30, 31>>, <<8, 36, 25>>
    >>

Row(h, a, j) == [club_home_id |-> h, club_away_id |-> a, journee |-> j]

FullPayloadRows == [i \in 1..Len(FullRows) |->
    Row(IdStr[FullRows[i][2]], IdStr[FullRows[i][3]], IntV(FullRows[i][1]))]

\* the same draw with journees 1 and 2 exchanged
SwappedRows == [i \in 1..Len(FullRows) |->
    Row(IdStr[FullRows[i][2]], IdStr[FullRows[i][3]],
        IntV(IF FullRows[i][1] = 1 THEN 2
             ELSE IF FullRows[i][1] = 2 THEN 1 ELSE FullRows[i][1]))]

\* the same draw with home and away of its first match exchanged
FlippedRows == [i \in 1..Len(FullRows) |->
    IF i = 1 THEN Row(IdStr[FullRows[1][3]], IdStr[FullRows[1][2]], IntV(FullRows[1][1]))
    ELSE FullPayloadRows[i]]

Payload(rows) == [season |-> Season, matches |-> rows]

Payloads ==
    <<Payload(FullPayloadRows), Payload(SwappedRows), Payload(FlippedRows),
     Payload(Append(FullPayloadRows, FullPayloadRows[1])),
     Payload(<<>>),
     Payload(<<Row(" C01", "C02 ", StrV("1")), Row("C01", "C02", IntV(1))>>),
     Payload(<<Row("C01", "C10", FloatV(2)), Row("C10", "C01", IntV(2))>>),
     Payload(<<Row("C01", "C99", IntV(1))>>),
     Payload(<<Row("C01", "C02", IntV(9))>>),
     Payload(<<Row("C01", "C02", StrV("x"))>>),
     Payload(<<Row("C01", "C02", NoneV)>>),
     Payload(<<Row("C01", "C01", IntV(1))>>),
     Payload(<<Row("C01", "C02", IntV(3)), Row("C10", "C01", IntV(3))>>),
     Payload(<<Row("C01", "C02", IntV(1)), Row("C01", "C11", IntV(2)),
               Row("C01", "C20", IntV(4))>>),
     Payload(<<Row("C01", "C10", IntV(1)), Row("C19", "C01", IntV(2)),
               Row("C01", "C28", IntV(3))>>),
     Payload(<<Row("C01", "C02", IntV(1)), Row("C10", "C01", IntV(1)),
               Row("C01", "C03", IntV(2)), Row("C01", "C04", IntV(3))>>),
     Payload(<<Row("C10", "C01", IntV(1)), Row("C01", "C02", IntV(1)),
               Row("C01", "C03", IntV(2)), Row("C01", "C04", IntV(3))>>)>>

\* the list of clubs given to the loader: the clubs file
ClubList == ClubTable

\* what the loader does with each file (evaluated once)
LoadResult == [k \in 1..Len(Payloads) |-> load_draw_from_file(Payloads[k], ClubList)]

(***************************************************************************)
(* Matches and lists of matches handed to the Draw operations               *)
(***************************************************************************)
MaxMatches == 2

MaxList == 2

M(h, a, j) == Match(h, a, IntV(j)).obj

CandidateMatches ==
    {M(ClubTable[1], ClubTable[10], 1), M(ClubTable[10], ClubTable[1], 1),
     M(ClubTable[1], ClubTable[10], 2), M(ClubTable[1], ClubTable[2], 1),
     M(ClubTable[1], ClubTable[2], 2), M(ClubTable[2], ClubTable[10], 2),
     M(ClubTable[1], RawPotClub, 1), M(DupIdClub, ClubTable[2], 1)}

ListMatches ==
    {M(ClubTable[1], ClubTable[10], 1), M(ClubTable[10], ClubTable[1], 1),
     M(ClubTable[2], ClubTable[10], 2)}

RECURSIVE Lists(_, _)
Lists(S, n) ==
    IF n = 0 THEN {<<>>}
    ELSE LET shorter == Lists(S, n - 1)
         IN  shorter \cup
             {Append(l, x) : l \in {y \in shorter : Len(y) = n - 1}, x \in S}

ListInputs == Lists(ListMatches, MaxList)

(***************************************************************************)
(* Construction of clubs and matches                                        *)
(***************************************************************************)
NoLast == [op |-> "init", exc |-> "none", arg |-> NoMatch,
           ok |-> FALSE, errors |-> <<>>, warnings |-> <<>>, violated |-> <<>>,
           list |-> <<>>]

NoMatchResult ==
    [op |-> "init", exc |-> "none",
     args |-> [club_home |-> NoClub, club_away |-> NoClub, journee |-> NoneV],
     obj |-> NoMatch]

Init ==
    /\ hashSeed \in {0, 1}
    /\ club = [exc |-> "none", obj |-> NoClub]
    /\ match = NoMatchResult
    /\ draw = EmptyDraw
    /\ last = NoLast

\* c = Club(id, nom, pays, chapeau)
NewClub(id, nom, pays, chapeau) ==
    /\ club' = Club(id, nom, pays, chapeau)
    /\ UNCHANGED <<hashSeed, match, draw, last>>

\* m = Match(h, a, j)
NewMatch(h, a, j) ==
    /\ match' = [op |-> "Match", exc |-> Match(h, a, j).exc,
                 args |-> [club_home |-> h, club_away |-> a, journee |-> j],
                 obj |-> Match(h, a, j).obj]
    /\ UNCHANGED <<hashSeed, club, draw, last>>

\* m = m.implies_reverse_match()
ReverseMatch ==
    /\ match.op # "init"
    /\ match.exc = "none"
    /\ LET r == implies_reverse_match(match.obj)
       IN  match' = [op |-> "implies_reverse_match", exc |-> r.exc,
                     args |-> [club_home |-> match.obj.club_away,
                               club_away |-> match.obj.club_home,
                               journee |-> IntV(match.obj.journee)],
                     obj |-> r.obj]
    /\ UNCHANGED <<hashSeed, club, draw, last>>

\* draw.add_match(m)
AddMatch(m) ==
    /\ Len(draw.matches) < MaxMatches \/ match_in(m, draw.matches)
    /\ draw' = add_match(draw, m).draw
    /\ last' = [NoLast EXCEPT !.op = "add_match", !.exc = add_match(draw, m).exc,
                              !.arg = m]
    /\ UNCHANGED <<hashSeed, club, match>>

\* draw.add_match(draw.matches[i].implies_reverse_match())
AddReverse(i) ==
    /\ i <= Len(draw.matches)
    /\ implies_reverse_match(draw.matches[i]).exc = "none"
    /\ LET m == implies_reverse_match(draw.matches[i]).obj
       IN  /\ Len(draw.matches) < MaxMatches \/ match_in(m, draw.matches)
           /\ draw' = add_match(draw, m).draw
           /\ last' = [NoLast EXCEPT !.op = "add_match",
                                     !.exc = add_match(draw, m).exc, !.arg = m]
    /\ UNCHANGED <<hashSeed, club, match>>

\* draw.add_matches(ms)
AddMatches(ms) ==
    /\ Len(add_matches(draw, ms).draw.matches) <= MaxMatches
    /\ draw' = add_matches(draw, ms).draw
    /\ last' = [NoLast EXCEPT !.op = "add_matches", !.exc = add_matches(draw, ms).exc,
                              !.list = ms]
    /\ UNCHANGED <<hashSeed, club, match>>

\* draw = Draw(matches=ms) or Draw(matches=None)
NewDraw(isNone, ms) ==
    /\ draw' = Draw(isNone, ms, Season)
    /\ last' = [NoLast EXCEPT !.op = "Draw"]
    /\ UNCHANGED <<hashSeed, club, match>>

\* draw = SolutionLoader.load_draw_from_file(file k, clubs); nothing is
\* assigned when the call raises
LoadDraw(k) ==
    /\ LET r == LoadResult[k]
       IN  /\ draw' = IF r.exc = "none" THEN r.draw ELSE draw
           /\ last' = [NoLast EXCEPT !.op = "load_draw_from_file", !.exc = r.exc]
    /\ UNCHANGED <<hashSeed, club, match>>

\* Variant of Validate in which the validator sorts the match list of the
\* Draw by journee before it looks at it; used to show that the formula of
\* C17 detects it.
Validate_sorting ==
    /\ \E r \in {validate(draw)} :
           last' = [NoLast EXCEPT !.op = "validate", !.exc = r.exc, !.ok = r.ok,
                                 !.errors = r.errors, !.warnings = r.warnings]
    /\ draw' = [draw EXCEPT !.matches = sorted_by_journee(draw.matches)]
    /\ UNCHANGED <<hashSeed, club, match>>

\* ok, errors, warnings = DrawValidator().validate(draw)
Validate ==
    /\ \E r \in {validate(draw)} :
           last' = [NoLast EXCEPT !.op = "validate", !.exc = r.exc, !.ok = r.ok,
                                 !.errors = r.errors, !.warnings = r.warnings]
    /\ UNCHANGED <<hashSeed, club, match, draw>>

\* ok, violated = UCLConstraints().verify_all_constraints(draw)
VerifyAll ==
    /\ \E r \in {verify_all_constraints(draw)} :
           last' = [NoLast EXCEPT !.op = "verify_all_constraints", !.exc = r.exc,
                                 !.ok = r.ok, !.violated = r.violated]
    /\ UNCHANGED <<hashSeed, club, match, draw>>

\* ok, violated = UCLConstraints().verify_hard_constraints(draw)
VerifyHard ==
    /\ \E r \in {verify_hard_constraints(draw)} :
           last' = [NoLast EXCEPT !.op = "verify_hard_constraints", !.exc = r.exc,
                                 !.ok = r.ok, !.violated = r.violated]
    /\ UNCHANGED <<hashSeed, club, match, draw>>

Next ==
    \/ \E m \in CandidateMatches : AddMatch(m)
    \/ \E i \in 1..MaxMatches : AddReverse(i)
    \/ \E ms \in ListInputs : AddMatches(ms)
    \/ \E isNone \in BOOLEAN, ms \in ListInputs : NewDraw(isNone, ms)
    \/ \E k \in 1..Len(Payloads) : LoadDraw(k)
    \/ Validate
    \/ VerifyAll
    \/ VerifyHard

Spec == Init /\ [][Next]_vars

NextClub ==
    \E id \in IdInputs, nom \in NomInputs, pays \in PaysInputs,
       chapeau \in ChapeauInputs : NewClub(id, nom, pays, chapeau)

SpecClub == Init /\ [][NextClub]_vars

NextMatch ==
    \/ \E h \in MatchClubs, a \in MatchClubs, j \in JourneeInputs : NewMatch(h, a, j)
    \/ ReverseMatch

SpecMatch == Init /\ [][NextMatch]_vars

(***************************************************************************)
(* Properties of DrawValidator.validate (checked under Spec)                *)
(***************************************************************************)
\* the kinds of the entries that _check_internal_consistency writes
StructuralKinds ==
    {"self_match", "journee_bounds", "total", "per_day", "pair", "home", "away"}

HardNames == {get_hard_constraints[i].name : i \in 1..Len(get_hard_constraints)}

SoftNames == {get_soft_constraints[i].name : i \in 1..Len(get_soft_constraints)}

\* the names of the hard rules whose check returns False on d, in
\* registration order
FailingHard(d) ==
    LET failing == SelectSeq(get_hard_constraints, LAMBDA c : is_satisfied(c, d) = "F")
    IN  [k \in 1..Len(failing) |-> failing[k].name]

\* C1: after validate, pass is true if and only if the structural layer
\* yields no entry and every hard rule is satisfied (the soft rule is no part
\* of the condition), and, when validate returns, the error list is empty
\* exactly when pass is true.
C1_PassIffStructureAndHardRulesHold ==
    last.op = "validate" =>
        /\ last.ok <=>
              /\ check_internal_consistency(draw) = <<>>
              /\ \A i \in 1..Len(get_hard_constraints) :
                     is_satisfied(get_hard_constraints[i], draw) = "T"
        /\ last.exc = "none" => (last.ok <=> last.errors = <<>>)

\* a draw passes although the soft rule is violated
C1_PassWithSoftViolation ==
    /\ last.op = "validate"
    /\ last.exc = "none"
    /\ last.ok
    /\ Len(draw.matches) = get_expected_total_matches
    /\ check_no_consecutive_matches(draw) = "F"

\* C2: the error list of validate holds at most one hard-rule entry; it is
\* there if and only if some hard rule fails, it names exactly the failing
\* hard rules in registration order, and it is the last entry, after the
\* structural entries.
C2_OneHardEntryAfterStructuralOnes ==
    (last.op = "validate" /\ last.exc = "none") =>
        \A failing \in {FailingHard(draw)} :
            LET hardAt == {i \in 1..Len(last.errors) : last.errors[i].kind = "hard"}
            IN  /\ Cardinality(hardAt) <= 1
                /\ (hardAt # {}) <=> (Len(failing) > 0)
                /\ \A i \in hardAt :
                       /\ i = Len(last.errors)
                       /\ last.errors[i].names = failing
                /\ \A i \in 1..Len(last.errors) :
                       i \notin hardAt => last.errors[i].kind \in StructuralKinds

\* several hard rules fail on a draw that also has structural entries
C2_SeveralRulesInOneEntry ==
    /\ last.op = "validate"
    /\ last.exc = "none"
    /\ Len(last.errors) >= 2
    /\ last.errors[1].kind \in StructuralKinds
    /\ last.errors[Len(last.errors)].kind = "hard"
    /\ Len(last.errors[Len(last.errors)].names) >= 2

\* C3: validate evaluates the soft rule whatever the errors: the warning
\* list is one entry naming no_consecutive_matches exactly when that rule is
\* violated, no warning names a hard rule, and no entry of the error list
\* names a soft rule.
C3_SoftRuleOnlyEverWarns ==
    (last.op = "validate" /\ last.exc = "none") =>
        /\ last.warnings =
               IF check_no_consecutive_matches(draw) = "F"
               THEN <<Entry("soft", "", "", 0, 0, 0, <<>>, <<"no_consecutive_matches">>)>>
               ELSE <<>>
        /\ \A i \in 1..Len(last.warnings) :
               \A k \in 1..Len(last.warnings[i].names) :
                   last.warnings[i].names[k] \notin HardNames
        /\ \A i \in 1..Len(last.errors) :
               /\ last.errors[i].kind # "soft"
               /\ \A k \in 1..Len(last.errors[i].names) :
                      last.errors[i].names[k] \notin SoftNames

\* the soft rule is reported although the draw has errors
C3_WarningBesideErrors ==
    /\ last.op = "validate"
    /\ last.exc = "none"
    /\ ~last.ok
    /\ Len(last.errors) > 0
    /\ Len(last.warnings) = 1
    /\ last.warnings[1].names = <<"no_consecutive_matches">>

(***************************************************************************)
(* Properties of Draw and Match identity (checked under Spec)               *)
(***************************************************************************)
\* two matches with the same (home id, away id, journee)
SameIdentity(m1, m2) ==
    /\ m1.club_home.id = m2.club_home.id
    /\ m1.club_away.id = m2.club_away.id
    /\ m1.journee = m2.journee

Holds(d, m) == \E i \in 1..Len(d.matches) : SameIdentity(d.matches[i], m)

\* C4: add_match of a match whose identity is already in the Draw raises and
\* leaves the matches and the season of the Draw as they were.
C4_DuplicateAddFailsAndChangesNothing ==
    [][(last'.op = "add_match" /\ Holds(draw, last'.arg)) =>
           /\ last'.exc = "ValueError"
           /\ draw'.matches = draw.matches
           /\ draw'.season = draw.season]_vars

\* a duplicate was refused by a Draw that holds matches
C4_DuplicateRefused ==
    /\ last.op = "add_match"
    /\ last.exc = "ValueError"
    /\ Len(draw.matches) > 0
    /\ Holds(draw, last.arg)

C6_NoTwoMatchesWithOneIdentity ==
    \A i, k \in 1..Len(draw.matches) :
        i # k => ~SameIdentity(draw.matches[i], draw.matches[k])

\* C7: the reverse of a match is a different match and the reverse of the
\* reverse is the match again; a Draw that holds a match accepts its reverse
\* and then holds both.
C7_ReverseIsAnotherMatch ==
    /\ [](\A i \in 1..Len(draw.matches) :
              \A r \in {implies_reverse_match(draw.matches[i])} :
                  /\ r.exc = "none"
                  /\ ~Match_eq(r.obj, draw.matches[i])
                  /\ implies_reverse_match(r.obj).exc = "none"
                  /\ Match_eq(implies_reverse_match(r.obj).obj, draw.matches[i])
                  /\ implies_reverse_match(r.obj).obj = draw.matches[i])
    /\ [][\A i \in 1..Len(draw.matches) :
              (/\ last'.op = "add_match"
               /\ last'.arg = implies_reverse_match(draw.matches[i]).obj
               /\ ~Holds(draw, last'.arg)) =>
                  /\ last'.exc = "none"
                  /\ Len(draw'.matches) = Len(draw.matches) + 1
                  /\ draw'.matches[i] = draw.matches[i]
                  /\ draw'.matches[Len(draw'.matches)] = last'.arg
                  /\ ~Match_eq(draw'.matches[i], draw'.matches[Len(draw'.matches)])]_vars

\* the reverse of the first match was added and the Draw holds both
C7_ReverseAdded ==
    /\ last.op = "add_match"
    /\ last.exc = "none"
    /\ Len(draw.matches) = 2
    /\ draw.matches[2] = implies_reverse_match(draw.matches[1]).obj
    /\ draw.matches[2] = last.arg
    /\ draw.matches[1] # draw.matches[2]

(***************************************************************************)
(* Properties of the constructors (checked under SpecMatch and SpecClub)    *)
(***************************************************************************)
\* C8: constructing a Match raises exactly when both clubs have the same id
\* or the journee is not an int in 1..JOURNEES; otherwise it gives the match
\* of the two clubs in that journee.
C8_MatchFailsExactlyOnSelfPairingOrBadRound ==
    match.op = "Match" =>
        /\ match.exc # "none" <=>
              \/ match.args.club_home.id = match.args.club_away.id
              \/ match.args.journee.t # "int"
              \/ match.args.journee.n \notin 1..JOURNEES
        /\ match.exc = "none" =>
              match.obj = [club_home |-> match.args.club_home,
                           club_away |-> match.args.club_away,
                           journee |-> match.args.journee.n]

\* the first journee past the last one is refused for two different clubs
C8_RoundPastTheLastRefused ==
    /\ match.op = "Match"
    /\ match.exc = "ValueError"
    /\ match.args.club_home.id # match.args.club_away.id
    /\ match.args.journee = IntV(JOURNEES + 1)

\* C9: every Club that was constructed has a country code of exactly three
\* uppercase letters.
C9_CountryCodeIsThreeUppercaseLetters ==
    (club.exc = "none" /\ club.obj # NoClub) =>
        /\ Len(club.obj.pays) = 3
        /\ \A i \in 1..Len(club.obj.pays) : club.obj.pays[i] \in UpperChars

\* C10: every Club that was constructed has a pot that is one of the four
\* members of Chapeau.
C10_PotIsOneOfTheFourTiers ==
    (club.exc = "none" /\ club.obj # NoClub) =>
        /\ club.obj.chapeau.enum
        /\ club.obj.chapeau.value \in 1..4

(***************************************************************************)
(* Properties of the rules and of the structural layer (checked under Spec) *)
(***************************************************************************)
\* the names under which rules 2 to 5 are registered
RulesTwoToFive ==
    {"matches_per_club", "home_away_balance", "opponents_per_chapeau",
     "chapeau_home_away_distribution"}

\* C11: clubs without a match count as violating rules 2 to 5, so that on a
\* Draw without matches verify_hard_constraints and validate name
\* matches_per_club, home_away_balance, opponents_per_chapeau and
\* chapeau_home_away_distribution among the violated rules.
C11_EmptyDrawViolatesRulesTwoToFive ==
    (draw.matches = <<>> /\ last.exc = "none") =>
        /\ last.op \in {"verify_hard_constraints", "verify_all_constraints"} =>
               \A n \in RulesTwoToFive :
                   \E i \in 1..Len(last.violated) : last.violated[i] = n
        /\ last.op = "validate" =>
               \A n \in RulesTwoToFive :
                   \E i \in 1..Len(last.errors) :
                       /\ last.errors[i].kind = "hard"
                       /\ \E k \in 1..Len(last.errors[i].names) :
                              last.errors[i].names[k] = n

\* the names of the rules in the order of their registration
RegistrationOrder ==
    <<"total_matches", "matches_per_club", "home_away_balance",
      "opponents_per_chapeau", "chapeau_home_away_distribution",
      "no_same_country_opponents", "max_two_from_same_foreign_country",
      "no_consecutive_matches">>

\* the names of the rules of cs whose check returns False on d, in the order
\* of cs
FailingAmong(cs, d) ==
    LET failing == SelectSeq(cs, LAMBDA c : is_satisfied(c, d) = "F")
    IN  [k \in 1..Len(failing) |-> failing[k].name]

\* C12: when verify_all_constraints or verify_hard_constraints returns, the
\* list it returns holds exactly the names of the rules of its class (all
\* eight, or the seven hard ones) whose check is false on the Draw, in
\* registration order, whatever rule failed before, and its flag is true
\* exactly when the list is empty.
C12_EveryFailingRuleIsNamedInOrder ==
    /\ [k \in 1..Len(constraints) |-> constraints[k].name] = RegistrationOrder
    /\ [k \in 1..Len(get_hard_constraints) |-> get_hard_constraints[k].name]
           = SubSeq(RegistrationOrder, 1, 7)
    /\ (last.op = "verify_all_constraints" /\ last.exc = "none") =>
           /\ last.violated = FailingAmong(constraints, draw)
           /\ last.ok <=> last.violated = <<>>
    /\ (last.op = "verify_hard_constraints" /\ last.exc = "none") =>
           /\ last.violated = FailingAmong(get_hard_constraints, draw)
           /\ last.ok <=> last.violated = <<>>

\* verify_all_constraints names the last registered rule after earlier
\* failures on a complete draw
C12_LastRuleNamedAfterEarlierFailures ==
    /\ last.op = "verify_all_constraints"
    /\ last.exc = "none"
    /\ ~last.ok
    /\ Len(draw.matches) = get_expected_total_matches
    /\ Len(last.violated) >= 3
    /\ last.violated[1] = "home_away_balance"
    /\ last.violated[Len(last.violated)] = "no_consecutive_matches"

\* the number of matches of the Draw d that involve the club id in journee r
MatchesInRound(d, id, r) ==
    Cardinality({i \in 1..Len(d.matches) :
                    /\ d.matches[i].journee = r
                    /\ id \in {d.matches[i].club_home.id, d.matches[i].club_away.id}})

\* C13: when validate returns, its error list holds one entry for a club of
\* the Draw and a journee r of 1..JOURNEES exactly when the club has a number
\* of matches other than 1 in r (the entry gives that number), never two
\* entries for the same club and journee, and no such entry for a club that
\* is not in the Draw or a journee outside 1..JOURNEES.
C13_OneEntryPerClubAndRoundNotPlayedOnce ==
    (last.op = "validate" /\ last.exc = "none") =>
        /\ \A id \in ClubIds(draw.matches), r \in 1..JOURNEES :
               \A n \in {MatchesInRound(draw, id, r)} :
                   /\ Cardinality({i \in 1..Len(last.errors) :
                                      /\ last.errors[i].kind = "per_day"
                                      /\ last.errors[i].id = id
                                      /\ last.errors[i].j = r})
                          = IF n # 1 THEN 1 ELSE 0
                   /\ \A i \in 1..Len(last.errors) :
                          (/\ last.errors[i].kind = "per_day"
                           /\ last.errors[i].id = id
                           /\ last.errors[i].j = r) => last.errors[i].n = n
        /\ \A i \in 1..Len(last.errors) :
               last.errors[i].kind = "per_day" =>
                   /\ last.errors[i].id \in ClubIds(draw.matches)
                   /\ last.errors[i].j \in 1..JOURNEES

\* a club with two matches in journee 3 and none in journee 4 has an entry
\* for each of the two journees
C13_TwoInRoundThreeNoneInRoundFour ==
    /\ last.op = "validate"
    /\ last.exc = "none"
    /\ \E id \in ClubIds(draw.matches) :
           /\ MatchesInRound(draw, id, 3) = 2
           /\ MatchesInRound(draw, id, 4) = 0
           /\ \E i, k \in 1..Len(last.errors) :
                  /\ last.errors[i] = Entry("per_day", id, "", 3, 2, 1, <<>>, <<>>)
                  /\ last.errors[k] = Entry("per_day", id, "", 4, 0, 1, <<>>, <<>>)

\* the number of matches of the Draw d between the clubs a and b, whatever
\* the venue
MatchesOfPair(d, a, b) ==
    Cardinality({i \in 1..Len(d.matches) :
                    {d.matches[i].club_home.id, d.matches[i].club_away.id} = {a, b}})

\* C14: when validate returns, its error list holds a pair entry for every
\* two clubs that meet in more than one match of the Draw, whatever the
\* venues and the journees of these matches, and none for two clubs that
\* meet in exactly one match.
C14_PairEntryForEveryPairMetMoreThanOnce ==
    (last.op = "validate" /\ last.exc = "none") =>
        \A a, b \in ClubIds(draw.matches) :
            \A n \in {MatchesOfPair(draw, a, b)} :
                /\ (a # b /\ n > 1) =>
                       \E i \in 1..Len(last.errors) :
                           /\ last.errors[i].kind = "pair"
                           /\ {last.errors[i].id, last.errors[i].id2} = {a, b}
                /\ (a # b /\ n = 1) =>
                       \A i \in 1..Len(last.errors) :
                           last.errors[i].kind = "pair" =>
                               {last.errors[i].id, last.errors[i].id2} # {a, b}

\* the entries es hold a home-count or an away-count entry
HasHomeAwayEntry(es) == \E i \in 1..Len(es) : es[i].kind \in {"home", "away"}

\* the entries es hold a hard entry that names the rule n
HardEntryNames(es, n) ==
    \E i \in 1..Len(es) :
        /\ es[i].kind = "hard"
        /\ \E k \in 1..Len(es[i].names) : es[i].names[k] = n

\* the number of home matches of the club id in the Draw d
HomeMatchesOf(d, id) ==
    Cardinality({i \in 1..Len(d.matches) : d.matches[i].club_home.id = id})

\* C15: on every Draw the structural layer writes a home-count or away-count
\* entry exactly when the check of home_away_balance is false; when validate
\* returns, its error list holds such an entry exactly when its hard entry
\* names home_away_balance, and a club whose number of home matches differs
\* from HOME_MATCHES_PER_CLUB makes validate fail with the home entry of
\* that club and the hard entry naming home_away_balance.
C15_HomeAwayEntriesAgreeWithHomeAwayBalance ==
    last.op = "validate" =>
        /\ HasHomeAwayEntry(check_internal_consistency(draw))
               <=> check_home_away_balance(draw) = "F"
        /\ last.exc = "none" =>
               /\ HasHomeAwayEntry(last.errors)
                      <=> HardEntryNames(last.errors, "home_away_balance")
               /\ \A id \in ClubIds(draw.matches) :
                      \A n \in {HomeMatchesOf(draw, id)} :
                          n # HOME_MATCHES_PER_CLUB =>
                              /\ ~last.ok
                              /\ HardEntryNames(last.errors, "home_away_balance")
                              /\ \E i \in 1..Len(last.errors) :
                                     last.errors[i] = Entry("home", id, "", 0, n,
                                         HOME_MATCHES_PER_CLUB, <<>>, <<>>)

\* in a complete draw one club has five home matches: validate fails with
\* the home entry of that club and the hard entry naming home_away_balance
C15_FiveHomeMatchesInCompleteDraw ==
    /\ last.op = "validate"
    /\ last.exc = "none"
    /\ ~last.ok
    /\ Len(draw.matches) = get_expected_total_matches
    /\ \E id \in ClubIds(draw.matches) :
           /\ HomeMatchesOf(draw, id) = HOME_MATCHES_PER_CLUB + 1
           /\ \E i \in 1..Len(last.errors) :
                  last.errors[i] = Entry("home", id, "", 0, HOME_MATCHES_PER_CLUB + 1,
                                         HOME_MATCHES_PER_CLUB, <<>>, <<>>)
    /\ HardEntryNames(last.errors, "home_away_balance")

\* the countries that the Club objects with the id carry in the Draw d
CountriesOf(d, id) ==
    {d.matches[i].club_home.pays :
         i \in {k \in 1..Len(d.matches) : d.matches[k].club_home.id = id}}
    \cup {d.matches[i].club_away.pays :
              i \in {k \in 1..Len(d.matches) : d.matches[k].club_away.id = id}}

\* every club of the Draw d has one country: two Club objects with the same
\* id agree on it
OneCountryPerClub(d) ==
    \A id \in ClubIds(d.matches) : Cardinality(CountriesOf(d, id)) = 1

\* the opponents of the club id in the Draw d that are of its country
SameCountryOpponents(d, id) ==
    {o \in ClubIds(d.matches) \ {id} :
        /\ MatchesOfPair(d, id, o) > 0
        /\ CountriesOf(d, o) \cap CountriesOf(d, id) # {}}

\* a club of the Draw d has more opponents of its own country than
\* MAX_SAME_COUNTRY_OPPONENTS
TooManySameCountryOpponents(d) ==
    \E id \in ClubIds(d.matches) :
        Cardinality(SameCountryOpponents(d, id)) > MAX_SAME_COUNTRY_OPPONENTS

\* a match of the Draw d is between two clubs of the same country
HoldsSameCountryMatch(d) ==
    \E i \in 1..Len(d.matches) :
        d.matches[i].club_home.pays = d.matches[i].club_away.pays

SameCountryMatchReportedWhenClubsHaveOneCountry ==
    (last.op = "validate" /\ OneCountryPerClub(draw)) =>
        /\ check_no_same_country_opponents(draw) = "F"
               <=> TooManySameCountryOpponents(draw)
        /\ HoldsSameCountryMatch(draw) =>
               /\ ~last.ok
               /\ last.exc = "none" =>
                      HardEntryNames(last.errors, "no_same_country_opponents")
        /\ \A i \in 1..Len(last.errors) :
               last.errors[i].kind = "hard" => last.errors[i].id = ""

C18_ValidateNeverRaises ==
    last.op = "validate" => last.exc = "none"

\* C19: every match that a Draw holds has two different club ids and a
\* journee in 1..JOURNEES, so that the structural layer writes no self-match
\* and no journee-out-of-bounds entry and no result of validate holds one.
C19_NoInvalidMatchInAnyDraw ==
    /\ \A i \in 1..Len(draw.matches) :
           /\ draw.matches[i].club_home.id # draw.matches[i].club_away.id
           /\ draw.matches[i].journee \in 1..JOURNEES
    /\ bounds_errors(draw.matches) = <<>>
    /\ last.op = "validate" =>
           \A i \in 1..Len(last.errors) :
               last.errors[i].kind \notin {"self_match", "journee_bounds"}

\* validate has returned structural entries for a Draw that holds matches
C19_StructuralEntriesWithoutBoundsEntries ==
    /\ last.op = "validate"
    /\ last.exc = "none"
    /\ Len(draw.matches) > 0
    /\ Len(last.errors) > 1
    /\ last.errors[1].kind \in StructuralKinds \ {"self_match", "journee_bounds"}

\* the ids of the clubs that the club id meets in the Draw d
OpponentIds(d, id) ==
    {d.matches[i].club_away.id :
         i \in {k \in 1..Len(d.matches) : d.matches[k].club_home.id = id}}
    \cup {d.matches[i].club_home.id :
              i \in {k \in 1..Len(d.matches) : d.matches[k].club_away.id = id}}

\* the pots that the Club objects with the id declare in the Draw d
PotsOf(d, id) ==
    {d.matches[i].club_home.chapeau.value :
         i \in {k \in 1..Len(d.matches) :
                   /\ d.matches[k].club_home.id = id
                   /\ d.matches[k].club_home.chapeau.enum}}
    \cup {d.matches[i].club_away.chapeau.value :
              i \in {k \in 1..Len(d.matches) :
                        /\ d.matches[k].club_away.id = id
                        /\ d.matches[k].club_away.chapeau.enum}}

\* the opponents of the club id that declare the pot p
OpponentsInPot(d, id, p) == {o \in OpponentIds(d, id) : p \in PotsOf(d, o)}

\* every club of the Draw d has in every pot the configured number of
\* distinct opponents
EveryPotCountAsConfigured(d) ==
    \A id \in ClubIds(d.matches), p \in DOMAIN OPPONENTS_PER_CHAPEAU :
        Cardinality(OpponentsInPot(d, id, p)) = OPPONENTS_PER_CHAPEAU[p]

\* C20: the check of opponents_per_chapeau is true exactly when every club of
\* the Draw has, in each of the four pots, OPPONENTS_PER_CHAPEAU distinct
\* opponents that declare this pot, an opponent met in two matches counting
\* once; verify_hard_constraints then does not name the rule, and the per-pot
\* counts of every club sum to MATCHES_PER_CLUB.
C20_OpponentsPerPotCountsDistinctOpponents ==
    last.op = "verify_hard_constraints" =>
        /\ check_opponents_per_chapeau(draw) = "T" <=> EveryPotCountAsConfigured(draw)
        /\ last.exc = "none" =>
               ((\A i \in 1..Len(last.violated) :
                     last.violated[i] # "opponents_per_chapeau")
                <=> EveryPotCountAsConfigured(draw))
        /\ EveryPotCountAsConfigured(draw) =>
               \A id \in ClubIds(draw.matches) :
                   Cardinality({<<o, p>> \in OpponentIds(draw, id)
                                             \X DOMAIN OPPONENTS_PER_CHAPEAU :
                                   p \in PotsOf(draw, o)}) = MATCHES_PER_CLUB

\* the rule holds on a complete draw in which one match is repeated: two
\* clubs meet twice and have nine matches each
C20_RuleHoldsWithOpponentMetTwice ==
    /\ last.op = "verify_hard_constraints"
    /\ last.exc = "none"
    /\ Len(draw.matches) = get_expected_total_matches + 1
    /\ \A i \in 1..Len(last.violated) : last.violated[i] # "opponents_per_chapeau"
    /\ \E i \in 1..Len(last.violated) : last.violated[i] = "matches_per_club"
    /\ \E id \in ClubIds(draw.matches) :
           \E o \in OpponentIds(draw, id) : MatchesOfPair(draw, id, o) = 2

(***************************************************************************)
(* Properties of the remaining rules (checked under Spec)                   *)
(***************************************************************************)
\* the number of home matches of the club id in the Draw d against clubs
\* that declare the pot p
HomeMatchesAgainstPot(d, id, p) ==
    Cardinality({i \in 1..Len(d.matches) :
                    /\ d.matches[i].club_home.id = id
                    /\ d.matches[i].club_away.chapeau.enum
                    /\ d.matches[i].club_away.chapeau.value = p})

\* the number of away matches of the club id in the Draw d against clubs
\* that declare the pot p
AwayMatchesAgainstPot(d, id, p) ==
    Cardinality({i \in 1..Len(d.matches) :
                    /\ d.matches[i].club_away.id = id
                    /\ d.matches[i].club_home.chapeau.enum
                    /\ d.matches[i].club_home.chapeau.value = p})

\* every club of the Draw d has against every pot the configured numbers of
\* home and of away matches
EveryPotSplitAsConfigured(d) ==
    \A id \in ClubIds(d.matches), p \in DOMAIN DISTRIBUTION_CHAPEAUX :
        /\ HomeMatchesAgainstPot(d, id, p) = DISTRIBUTION_CHAPEAUX[p][1]
        /\ AwayMatchesAgainstPot(d, id, p) = DISTRIBUTION_CHAPEAUX[p][2]

\* the list ns holds the name n
Names(ns, n) == \E i \in 1..Len(ns) : ns[i] = n

\* C21: the check of chapeau_home_away_distribution is true exactly when
\* every club of the Draw has, against each of the four pots, the configured
\* number of home matches and the configured number of away matches;
\* verify_hard_constraints names the rule exactly when this is not so.
C21_PotSplitCountsHomeAndAwayMatches ==
    last.op = "verify_hard_constraints" =>
        /\ check_chapeau_home_away_distribution(draw) = "T"
               <=> EveryPotSplitAsConfigured(draw)
        /\ last.exc = "none" =>
               (Names(last.violated, "chapeau_home_away_distribution")
                <=> ~EveryPotSplitAsConfigured(draw))

\* on a complete draw every club has two opponents in every pot, yet one
\* club meets both opponents of a pot away: only the split is wrong
C21_RightOpponentsWrongSplit ==
    /\ last.op = "verify_hard_constraints"
    /\ last.exc = "none"
    /\ Len(draw.matches) = get_expected_total_matches
    /\ Names(last.violated, "chapeau_home_away_distribution")
    /\ ~Names(last.violated, "opponents_per_chapeau")
    /\ \E id \in ClubIds(draw.matches), p \in DOMAIN DISTRIBUTION_CHAPEAUX :
           /\ HomeMatchesAgainstPot(draw, id, p) = 0
           /\ AwayMatchesAgainstPot(draw, id, p) = 2

\* the opponents of the club id in the Draw d that are of the country k
OpponentsFrom(d, id, k) == {o \in OpponentIds(d, id) : k \in CountriesOf(d, o)}

\* the countries of the opponents of the club id in the Draw d
OpponentCountries(d, id) ==
    {d.matches[i].club_away.pays :
         i \in {k \in 1..Len(d.matches) : d.matches[k].club_home.id = id}}
    \cup {d.matches[i].club_home.pays :
              i \in {k \in 1..Len(d.matches) : d.matches[k].club_away.id = id}}

\* a club of the Draw d has more than MAX_OPPONENTS_PER_FOREIGN_COUNTRY
\* opponents of one country that is not its own
TooManyFromOneForeignCountry(d) ==
    \E id \in ClubIds(d.matches) :
        \E k \in OpponentCountries(d, id) \ CountriesOf(d, id) :
            Cardinality(OpponentsFrom(d, id, k)) > MAX_OPPONENTS_PER_FOREIGN_COUNTRY

\* C22: the check of max_two_from_same_foreign_country is false exactly when
\* some club of the Draw has more than MAX_OPPONENTS_PER_FOREIGN_COUNTRY
\* distinct opponents of one country other than its own; the opponents of
\* the club's own country are not counted, and verify_hard_constraints names
\* the rule exactly in that case.
C22_CeilingCountsForeignOpponentsOnly ==
    last.op = "verify_hard_constraints" =>
        /\ check_max_two_from_same_foreign_country(draw) = "F"
               <=> TooManyFromOneForeignCountry(draw)
        /\ last.exc = "none" =>
               (Names(last.violated, "max_two_from_same_foreign_country")
                <=> TooManyFromOneForeignCountry(draw))

\* a club meets three clubs of its own country and no two clubs of another
\* one: no_same_country_opponents is named, the ceiling rule is not
C22_ThreeOpponentsOfTheOwnCountry ==
    /\ last.op = "verify_hard_constraints"
    /\ last.exc = "none"
    /\ Names(last.violated, "no_same_country_opponents")
    /\ ~Names(last.violated, "max_two_from_same_foreign_country")
    /\ \E id \in ClubIds(draw.matches) :
           /\ Cardinality(SameCountryOpponents(draw, id))
                  > MAX_OPPONENTS_PER_FOREIGN_COUNTRY
           /\ OpponentCountries(draw, id) \subseteq CountriesOf(draw, id)

\* the places in the match list of the Draw d of the matches of the club id
PlacesOf(d, id) ==
    {i \in 1..Len(d.matches) :
        id \in {d.matches[i].club_home.id, d.matches[i].club_away.id}}

\* the rank of the match at place i among the matches at the places idx, by
\* journee and, within a journee, by place in the list
RankAmong(d, idx, i) ==
    1 + Cardinality({k \in idx :
            \/ d.matches[k].journee < d.matches[i].journee
            \/ d.matches[k].journee = d.matches[i].journee /\ k < i})

\* among the matches at the places idx, taken by rank, more than max
\* successive ones, from the one at place i on, have the club id at home
\* (home = TRUE) or away (home = FALSE)
RunFrom(d, id, idx, i, home, max) ==
    \A r \in RankAmong(d, idx, i)..(RankAmong(d, idx, i) + max) :
        \E k \in idx :
            /\ RankAmong(d, idx, k) = r
            /\ (d.matches[k].club_home.id = id) = home

\* some club of the Draw d has a run of home matches longer than
\* MAX_CONSECUTIVE_HOME_MATCHES or a run of away matches longer than
\* MAX_CONSECUTIVE_AWAY_MATCHES
SomeRunTooLong(d) ==
    \E id \in ClubIds(d.matches) :
        \E idx \in {PlacesOf(d, id)} :
            \E i \in idx :
                \/ RunFrom(d, id, idx, i, TRUE, MAX_CONSECUTIVE_HOME_MATCHES)
                \/ RunFrom(d, id, idx, i, FALSE, MAX_CONSECUTIVE_AWAY_MATCHES)

\* C23: the check of no_consecutive_matches is false exactly when, for some
\* club, the matches of the club taken by journee hold more than
\* MAX_CONSECUTIVE_HOME_MATCHES successive home matches or more than
\* MAX_CONSECUTIVE_AWAY_MATCHES successive away matches, whatever the
\* journees without a match in between; verify_all_constraints names the
\* rule exactly in that case.
C23_RunsAreCountedOverTheMatchesByRound ==
    last.op = "verify_all_constraints" =>
        /\ check_no_consecutive_matches(draw) = "F" <=> SomeRunTooLong(draw)
        /\ last.exc = "none" =>
               (Names(last.violated, "no_consecutive_matches")
                <=> SomeRunTooLong(draw))

\* a club plays three matches, all at home, the third after a journee
\* without a match: the rule is named
C23_RunAcrossRoundWithoutMatch ==
    /\ last.op = "verify_all_constraints"
    /\ last.exc = "none"
    /\ Names(last.violated, "no_consecutive_matches")
    /\ Len(draw.matches) = MAX_CONSECUTIVE_HOME_MATCHES + 1
    /\ \E id \in ClubIds(draw.matches) :
           /\ \A i \in 1..Len(draw.matches) : draw.matches[i].club_home.id = id
           /\ \E j \in 1..JOURNEES :
                  /\ MatchesInRound(draw, id, j) = 0
                  /\ MatchesInRound(draw, id, j - 1) = 1
                  /\ MatchesInRound(draw, id, j + 1) = 1

(***************************************************************************)
(* Properties that relate several Draws or several layers (checked under    *)
(* Spec)                                                                    *)
(***************************************************************************)
\* the longest match list whose reorderings are all validated
MaxReordered == 4

\* the rearrangements of the places 1..n
Rearrangements(n) ==
    {f \in [1..n -> 1..n] : \A i, k \in 1..n : f[i] = f[k] => i = k}

\* the entries of the list es, as a set
EntrySet(es) == {es[i] : i \in 1..Len(es)}

\* C24: the result of validate does not depend on the order of the match
\* list: a Draw that holds the same matches in another order gets the same
\* pass flag, the same set of error entries and the same warnings.
C24_ValidateIgnoresInsertionOrder ==
    (last.op = "validate" /\ last.exc = "none"
         /\ Len(draw.matches) <= MaxReordered) =>
        \A f \in Rearrangements(Len(draw.matches)) :
            \A r \in {validate([draw EXCEPT !.matches =
                                   [i \in 1..Len(draw.matches) |-> draw.matches[f[i]]]])} :
                r.exc = "none" =>
                    /\ r.ok = last.ok
                    /\ EntrySet(r.errors) = EntrySet(last.errors)
                    /\ r.warnings = last.warnings

\* the entries es hold none of the kinds
NoEntryOf(es, kinds) == \A i \in 1..Len(es) : es[i].kind \notin kinds

\* each counting rule follows from the absence of the structural entries
\* that count the same thing
CountingRulesFollow(d, es) ==
    /\ NoEntryOf(es, {"total"}) => check_total_matches(d) = "T"
    /\ NoEntryOf(es, {"per_day"}) => check_matches_per_club(d) = "T"
    /\ NoEntryOf(es, {"home", "away"}) => check_home_away_balance(d) = "T"

\* C25: on every Draw for which _check_internal_consistency returns no
\* entry, the checks of total_matches, matches_per_club and
\* home_away_balance are true (JOURNEES being MATCHES_PER_CLUB); each of the
\* three already follows from the absence of the entries of its own kind.
C25_StructurallySoundDrawKeepsCountingRules ==
    /\ JOURNEES = MATCHES_PER_CLUB
    /\ last.op = "validate" => CountingRulesFollow(draw, check_internal_consistency(draw))
    /\ (last.op = "validate" /\ check_internal_consistency(draw) = <<>>) =>
           /\ check_total_matches(draw) = "T"
           /\ check_matches_per_club(draw) = "T"
           /\ check_home_away_balance(draw) = "T"
           /\ last.exc = "none" =>
                  \A i \in 1..Len(last.errors) :
                      \A k \in 1..Len(last.errors[i].names) :
                          last.errors[i].names[k] \notin
                              {"total_matches", "matches_per_club", "home_away_balance"}

\* validate has found no structural entry on a Draw that holds matches
C25_NoStructuralEntryOnCompleteDraw ==
    /\ last.op = "validate"
    /\ last.exc = "none"
    /\ Len(draw.matches) > 0
    /\ check_internal_consistency(draw) = <<>>
    /\ \A i \in 1..Len(last.errors) : last.errors[i].kind \notin StructuralKinds
    /\ Len(last.warnings) = 1

\* the places of the list ms whose match is held by the Draw d or stands
\* earlier in the list
RefusedPlaces(d, ms) ==
    {i \in 1..Len(ms) :
        \/ Holds(d, ms[i])
        \/ \E k \in 1..(i - 1) : SameIdentity(ms[k], ms[i])}

\* C26: add_matches of a list that holds a match already in the Draw, or
\* twice the same match, raises at the first such match: the matches before
\* it in the list are appended and stay, no match from it on is appended;
\* a list without such a match is appended whole.
C26_AddMatchesStopsAtFirstDuplicate ==
    [][last'.op = "add_matches" =>
          \A refused \in {RefusedPlaces(draw, last'.list)} :
              IF refused = {}
              THEN /\ last'.exc = "none"
                   /\ draw'.matches = draw.matches \o last'.list
              ELSE /\ last'.exc = "ValueError"
                   /\ draw'.matches =
                          draw.matches \o SubSeq(last'.list, 1, Min(refused) - 1)]_vars

\* add_matches has failed at the second match of its list and the first one
\* is in the Draw
C26_FirstMatchKeptAfterFailure ==
    /\ last.op = "add_matches"
    /\ last.exc = "ValueError"
    /\ Len(last.list) = 2
    /\ SameIdentity(last.list[1], last.list[2])
    /\ Len(draw.matches) > 0
    /\ draw.matches[Len(draw.matches)] = last.list[1]

\* the number of matches of the Draw d in which the club id plays
MatchesOfClub(d, id) == Cardinality(PlacesOf(d, id))

\* the sum of the numbers of matches of the clubs ids[i], ..., ids[Len(ids)]
RECURSIVE MatchesOfClubsFrom(_, _, _)
MatchesOfClubsFrom(d, ids, i) ==
    IF i > Len(ids) THEN 0
    ELSE MatchesOfClub(d, ids[i]) + MatchesOfClubsFrom(d, ids, i + 1)

\* C27: a Draw for which validate returns pass = true holds exactly
\* TOTAL_CLUBS different clubs: it has TOTAL_CLUBS * MATCHES_PER_CLUB / 2
\* matches, each of its clubs plays MATCHES_PER_CLUB of them, and in every
\* Draw the numbers of matches of the clubs add up to twice the number of
\* matches.
C27_PassingDrawHoldsTheConfiguredNumberOfClubs ==
    last.op = "validate" =>
        /\ MatchesOfClubsFrom(draw, SortedIds(ClubIds(draw.matches)), 1)
               = 2 * Len(draw.matches)
        /\ (last.exc = "none" /\ last.ok) =>
               /\ Len(draw.matches) = (TOTAL_CLUBS * MATCHES_PER_CLUB) \div 2
               /\ \A id \in ClubIds(draw.matches) :
                      MatchesOfClub(draw, id) = MATCHES_PER_CLUB
               /\ Cardinality(ClubIds(draw.matches)) = TOTAL_CLUBS

\* validate has returned (true, [], []) for a Draw of TOTAL_CLUBS clubs
C27_CleanPassWithAllClubs ==
    /\ last.op = "validate"
    /\ last.exc = "none"
    /\ last.ok
    /\ last.errors = <<>>
    /\ last.warnings = <<>>
    /\ Cardinality(ClubIds(draw.matches)) = TOTAL_CLUBS

====
